---- MODULE Spec2Model ----
(***************************************************************************)
(* Model of the two plugins of this repository:                            *)
(*   - clientPinnedMessages (src/unnamed/part_000): the pin list, its      *)
(*     persistence and the pinned-messages view;                           *)
(*   - alwaysConnected (src/src/plugins/alwaysConnected/index.tsx and its  *)
(*     native helper src/unnamed/part_001): the reconnect monitor.         *)
(* The host's DataStore is not part of the sources at hand; it is modelled *)
(* as a key-value store whose operations take effect in issue order.       *)
(***************************************************************************)
EXTENDS Integers, Sequences, FiniteSets, Bags, TLC

\* ------------------------------------------------------------------------
\* Bounds of the model
\* ------------------------------------------------------------------------
MaxClock == 3
MaxToggles == 3
MaxLen == 2
MaxStarts == 2
MaxChains == 2
MaxAttempt == 3

\* Values the inputs are drawn from
MessageIds == {"5", "6"}
ChannelIds == {"10"}
Contents == {"hi", "yo"}
Authors == {"bob"}

\* The message objects handed to togglePin by the context menu
Messages ==
  [id : MessageIds, channel_id : ChannelIds, content : Contents,
   author : [username : Authors]]

VARIABLES
  dataStore,        \* the host's durable key-value store
  pinnedMessages,   \* part_000: module-level list of PinnedMessage
  now,              \* last value returned by Date.now()
  toggles,          \* history: togglePin calls applied to each message id
  mounted,          \* ClientPinsTab is rendered
  pins,             \* ClientPinsTab: the `pins` React state
  lastOp,           \* history: the operation that ran last
  rtInput,          \* round trip: the list handed to savePinnedMessages
  rtLoaded,         \* round trip: the list loadPinnedMessages returned
  rtPc,             \* round trip: position
  monitorInterval,  \* index.tsx: handle of the monitor interval, 0 is null
  intervals,        \* host timers: monitor intervals not yet cleared
  timerIds,         \* host timers: number of interval handles handed out
  lastVoiceChannel, \* index.tsx: last known voice channel, or Null
  wasManuallyDisconnected, \* index.tsx: manual-disconnect flag
  pendingStarts,    \* start() calls awaiting DataStore.get: loaded values
  starts,           \* number of start() calls so far
  retryTimers,      \* host timers: pending recheck timeouts of attemptRejoin
  connected,        \* host: VoiceConnectionStore.getConnection() is truthy
  selected,         \* host: SelectedChannelStore.getChannelId(), or Null
  voiceService,     \* host: window.VoiceService.join is a function
  stateFile,        \* part_001: channel id in alwaysConnectedState.json
  nativeMonitorInterval, \* part_001: the native monitor interval is set
  nativeIntervals,  \* host timers: native monitor intervals not yet cleared
  lastSaved,        \* history: id of the last saveChannelId that succeeded
  joins,            \* history: join calls issued by the last step
  rejoined,         \* history: the last step invoked autoRejoin
  joinThrew,        \* history: the join call of the last step threw
  autoRejoinDelay,  \* the value the user has stored for settings.autoRejoinDelay
  dispatched,       \* history: channel ids dispatched by the last native tick
  manualPending,    \* history: null update seen, no CONNECTION_OPEN since
  suppressed        \* history: as manualPending, also ended by a connected tick

pinVars == <<pinnedMessages, now, toggles, mounted, pins>>

rtVars == <<rtInput, rtLoaded, rtPc>>

acState ==
  <<monitorInterval, intervals, timerIds, lastVoiceChannel,
    wasManuallyDisconnected, pendingStarts, starts, retryTimers>>

hostVars == <<connected, selected, voiceService>>

nativeVars == <<stateFile, nativeMonitorInterval, nativeIntervals, lastSaved>>

histVars == <<joins, rejoined, joinThrew, dispatched, manualPending, suppressed>>

settingsVars == <<autoRejoinDelay>>

acVars == <<acState, hostVars, nativeVars, histVars, settingsVars>>

vars == <<dataStore, lastOp, pinVars, rtVars, acVars>>

\* ------------------------------------------------------------------------
\* DataStore (host API): durable key-value entries
\* ------------------------------------------------------------------------
PINNED_KEY == "ClientPinnedMessages"
dataStoreKey == "AlwaysConnected_lastVoiceChannel"

Undefined(default) == [has |-> FALSE, val |-> default]

DataStoreInit ==
  [k \in {PINNED_KEY, dataStoreKey} |->
     IF k = PINNED_KEY THEN Undefined(<<>>) ELSE Undefined("")]

DataStoreSet(ds, key, value) ==
  [ds EXCEPT ![key] = [has |-> TRUE, val |-> value]]

DataStoreGet(ds, key, default) ==
  IF ds[key].has THEN ds[key].val ELSE default

\* ------------------------------------------------------------------------
\* clientPinnedMessages: data handling
\* ------------------------------------------------------------------------
\* mutant: the newer of the first two records is moved to the front on load
loadPinnedMessages_Reordered(ds) ==
  LET list == DataStoreGet(ds, PINNED_KEY, <<>>)
  IN IF Len(list) < 2 \/ list[1].timestamp >= list[2].timestamp
     THEN list
     ELSE <<list[2], list[1]>> \o SubSeq(list, 3, Len(list))

loadPinnedMessages(ds) == DataStoreGet(ds, PINNED_KEY, <<>>)

\* mutant: an empty list is not written
savePinnedMessages_SkipEmpty(ds, list) ==
  IF list = <<>> THEN ds ELSE DataStoreSet(ds, PINNED_KEY, list)

savePinnedMessages(ds, list) == DataStoreSet(ds, PINNED_KEY, list)

\* list.filter(pin => pin.id !== id)
filterOutId(list, id) ==
  LET F[i \in 0..Len(list)] ==
        IF i = 0 THEN <<>>
        ELSE IF list[i].id # id THEN Append(F[i - 1], list[i]) ELSE F[i - 1]
  IN F[Len(list)]

\* mutant: only the first record is compared
isPinned_FirstOnly(list, messageId) ==
  list # <<>> /\ list[1].id = messageId

isPinned(list, messageId) == \E i \in 1..Len(list) : list[i].id = messageId

PinnedMessage(message, timestamp) ==
  [id |-> message.id,
   channelId |-> message.channel_id,
   content |-> message.content,
   author |-> message.author.username,
   timestamp |-> timestamp]

\* mutant: a pinned message is never removed
togglePinList_NoRemove(list, message, timestamp) ==
  IF isPinned(list, message.id)
  THEN list
  ELSE Append(list, PinnedMessage(message, timestamp))

\* the list togglePin leaves in pinnedMessages
togglePinList(list, message, timestamp) ==
  IF isPinned(list, message.id)
  THEN filterOutId(list, message.id)
  ELSE Append(list, PinnedMessage(message, timestamp))

togglePin(message) ==
  /\ toggles[message.id] < MaxToggles
  /\ \E t \in now..MaxClock :
       /\ now' = t
       /\ pinnedMessages' = togglePinList(pinnedMessages, message, t)
  /\ dataStore' = savePinnedMessages(dataStore, pinnedMessages')
  /\ toggles' = [toggles EXCEPT ![message.id] = @ + 1]
  /\ lastOp' = "togglePin"
  /\ UNCHANGED <<mounted, pins, rtVars, acVars>>

\* onStart re-reads the persisted list
onStart ==
  /\ pinnedMessages' = loadPinnedMessages(dataStore)
  /\ lastOp' = "onStart"
  /\ UNCHANGED <<dataStore, now, toggles, mounted, pins, rtVars, acVars>>

\* ------------------------------------------------------------------------
\* clientPinnedMessages: the pinned-messages view
\* ------------------------------------------------------------------------
\* Array.prototype.sort with (a, b) => b.timestamp - a.timestamp: stable,
\* timestamp descending
SortInsert(sorted, x) ==
  LET k == Cardinality({i \in 1..Len(sorted) :
                          sorted[i].timestamp >= x.timestamp})
  IN SubSeq(sorted, 1, k) \o <<x>> \o SubSeq(sorted, k + 1, Len(sorted))

SortByTimestampDesc(s) ==
  LET F[i \in 0..Len(s)] ==
        IF i = 0 THEN <<>> ELSE SortInsert(F[i - 1], s[i])
  IN F[Len(s)]

\* first render of ClientPinsTab: useState(loadPinnedMessages())
Render ==
  /\ ~mounted
  /\ mounted' = TRUE
  /\ pins' = loadPinnedMessages(dataStore)
  /\ lastOp' = "Render"
  /\ UNCHANGED <<dataStore, pinnedMessages, now, toggles, rtVars, acVars>>

\* the 2000 ms interval of the view
Poll ==
  /\ mounted
  /\ pins' = SortByTimestampDesc(loadPinnedMessages(dataStore))
  /\ lastOp' = "Poll"
  /\ UNCHANGED <<dataStore, pinnedMessages, now, toggles, mounted, rtVars, acVars>>

\* the effect cleanup clears the interval; the state is discarded
Unmount ==
  /\ mounted
  /\ mounted' = FALSE
  /\ pins' = <<>>
  /\ lastOp' = "Unmount"
  /\ UNCHANGED <<dataStore, pinnedMessages, now, toggles, rtVars, acVars>>

\* the list the Unpin button leaves in pinnedMessages
unpinList(list, pin) == filterOutId(list, pin.id)

\* onClick of the Unpin button of the i-th displayed record
UnpinClick(i) ==
  /\ mounted
  /\ i \in 1..Len(pins)
  /\ pinnedMessages' = unpinList(pinnedMessages, pins[i])
  /\ dataStore' = savePinnedMessages(dataStore, pinnedMessages')
  /\ pins' = loadPinnedMessages(dataStore')
  /\ lastOp' = "UnpinClick"
  /\ UNCHANGED <<now, toggles, mounted, rtVars, acVars>>


\* ------------------------------------------------------------------------
\* clientPinnedMessages: save followed by load, on any list of records
\* ------------------------------------------------------------------------
PinnedMessages ==
  [id : MessageIds, channelId : ChannelIds, content : Contents,
   author : Authors, timestamp : 1..MaxClock]

PinnedLists == UNION {[1..n -> PinnedMessages] : n \in 0..MaxLen}

RtSave ==
  /\ rtPc = "start"
  /\ dataStore' = savePinnedMessages(dataStore, rtInput)
  /\ rtPc' = "saved"
  /\ lastOp' = "RtSave"
  /\ UNCHANGED <<rtInput, rtLoaded, pinVars, acVars>>

RtLoad ==
  /\ rtPc = "saved"
  /\ rtLoaded' = loadPinnedMessages(dataStore)
  /\ rtPc' = "loaded"
  /\ lastOp' = "RtLoad"
  /\ UNCHANGED <<dataStore, rtInput, pinVars, acVars>>

\* ------------------------------------------------------------------------
\* alwaysConnected: host surfaces and helpers
\* ------------------------------------------------------------------------
Null == "null"
VoiceChannels == {"c1"}
MaybeChannel == VoiceChannels \cup {Null}

\* the batches of voice-state updates the host delivers
UpdateBatches ==
  {<<[channelId |-> Null]>>,
   <<[channelId |-> "c1"]>>,
   <<[channelId |-> "c1"], [channelId |-> Null]>>}

autoRejoinDelayDefault == 30000
maxDelay == 60000

Min(a, b) == IF a <= b THEN a ELSE b

isConnected == connected

getCurrentVoiceChannelId == selected

\* mutant: the cap is not applied
retryDelay_Uncapped(baseDelay, attempt) == baseDelay * (attempt + 1)

\* delay of the recheck timer set by attemptRejoin(attempt)
retryDelay(baseDelay, attempt) == Min(baseDelay * (attempt + 1), maxDelay)

\* mutant: the selected channel is not used as a fallback
rejoinTarget_NoFallback(lvc, current) == lvc

\* const channelId = (this.lastVoiceChannel ?? null) || this.getCurrentVoiceChannelId()
rejoinTarget(lvc, current) == IF lvc # Null THEN lvc ELSE current

\* join calls made by one attemptRejoin
joinCalls(service) == IF service THEN 1 ELSE 0

retryTimer(channelId, attempt) ==
  [channelId |-> channelId,
   attempt |-> attempt,
   delay |-> retryDelay(autoRejoinDelayDefault, attempt)]

\* mutant: an error thrown by join leaves attemptRejoin before setTimeout
scheduleRecheck_Propagates(timers, channelId, attempt, threw) ==
  IF threw THEN timers ELSE timers (+) SetToBag({retryTimer(channelId, attempt)})

\* the timers after attemptRejoin(attempt): the try/catch around join lets
\* setTimeout run whether or not join threw
scheduleRecheck(timers, channelId, attempt, threw) ==
  timers (+) SetToBag({retryTimer(channelId, attempt)})

\* autoRejoin() with this.lastVoiceChannel = lvc: the join calls it makes
\* and the recheck timers it leaves
autoRejoin(lvc) ==
  LET channelId == rejoinTarget(lvc, getCurrentVoiceChannelId) IN
  /\ rejoined' = TRUE
  /\ IF channelId = Null
     THEN /\ joins' = 0
          /\ joinThrew' = FALSE
          /\ retryTimers' = retryTimers
     ELSE /\ BagCardinality(retryTimers) < MaxChains
          /\ joins' = joinCalls(voiceService)
          /\ \E threw \in BOOLEAN :
               /\ joinThrew' = (threw /\ joins' > 0)
               /\ retryTimers' = scheduleRecheck(retryTimers, channelId, 0, joinThrew')

noJoin ==
  /\ rejoined' = FALSE
  /\ joinThrew' = FALSE
  /\ joins' = 0

noRejoin ==
  /\ noJoin
  /\ retryTimers' = retryTimers

\* ------------------------------------------------------------------------
\* alwaysConnected: native helper (part_001)
\* ------------------------------------------------------------------------
NativeChannelIds == {"c1", "c2"}

saveChannelId(file, channelId) == channelId

\* saveChannelId when writeFileSync may throw: the error is caught and the
\* file is left as it was
trySaveChannelId(file, channelId, ok) ==
  IF ok THEN saveChannelId(file, channelId) ELSE file

loadChannelId(file) == file

\* mutant: a second interval is set while one is running
startedIntervals_NoGuard(handle, active) == active + 1

\* the native intervals running after startNativeMonitor: none is added
\* when nativeMonitorInterval is set
startedIntervals(handle, active) == IF handle THEN active ELSE active + 1

\* the native intervals running after stopNativeMonitor
stoppedIntervals(handle, active) == IF handle THEN active - 1 ELSE active

\* startNativeMonitor(channelId); ok tells whether the write succeeds
startNativeMonitor(channelId, ok) ==
  /\ stateFile' = trySaveChannelId(stateFile, channelId, ok)
  /\ lastSaved' = IF ok THEN channelId ELSE lastSaved
  /\ nativeIntervals' = startedIntervals(nativeMonitorInterval, nativeIntervals)
  /\ nativeMonitorInterval' = TRUE

\* nativeKeepAlive(channelId) with its own write and, when no monitor runs,
\* the write of startNativeMonitor
nativeKeepAliveWrites(channelId, ok1, ok2) ==
  LET saved == trySaveChannelId(stateFile, channelId, ok1) IN
  /\ stateFile' = IF nativeMonitorInterval THEN saved
                  ELSE trySaveChannelId(saved, channelId, ok2)
  /\ lastSaved' = IF ok1 \/ (~nativeMonitorInterval /\ ok2)
                  THEN channelId ELSE lastSaved
  /\ nativeIntervals' = startedIntervals(nativeMonitorInterval, nativeIntervals)
  /\ nativeMonitorInterval' = TRUE

\* nativeKeepAlive(channelId): saves the id and makes sure the monitor runs
nativeKeepAlive(channelId) == nativeKeepAliveWrites(channelId, TRUE, TRUE)

\* if (this.lastVoiceChannel) Native.nativeKeepAlive(this.lastVoiceChannel)
keepAliveIfKnown(lvc) ==
  IF lvc # Null THEN nativeKeepAlive(lvc) ELSE UNCHANGED nativeVars

\* ------------------------------------------------------------------------
\* alwaysConnected: flux handlers
\* ------------------------------------------------------------------------
hasNullUpdate(updates) ==
  \E i \in 1..Len(updates) : updates[i].channelId = Null

voiceStateFlag(flag, updates) == IF hasNullUpdate(updates) THEN TRUE ELSE flag

VOICE_STATE_UPDATES(updates) ==
  /\ wasManuallyDisconnected' = voiceStateFlag(wasManuallyDisconnected, updates)
  /\ manualPending' = (manualPending \/ hasNullUpdate(updates))
  /\ suppressed' = (suppressed \/ hasNullUpdate(updates))
  /\ lastOp' = "VOICE_STATE_UPDATES"
  /\ noRejoin
  /\ dispatched' = <<>>
  /\ UNCHANGED <<dataStore, monitorInterval, intervals, timerIds,
                 lastVoiceChannel, pendingStarts, starts, hostVars,
                 nativeVars, settingsVars, pinVars, rtVars>>

\* mutant: the flag is not reset
connectionOpenFlag_Keep(flag) == flag

connectionOpenFlag(flag) == FALSE

CONNECTION_OPEN ==
  /\ wasManuallyDisconnected' = connectionOpenFlag(wasManuallyDisconnected)
  /\ manualPending' = FALSE
  /\ suppressed' = FALSE
  /\ lastOp' = "CONNECTION_OPEN"
  /\ noRejoin
  /\ dispatched' = <<>>
  /\ UNCHANGED <<dataStore, monitorInterval, intervals, timerIds,
                 lastVoiceChannel, pendingStarts, starts, hostVars,
                 nativeVars, settingsVars, pinVars, rtVars>>

\* ------------------------------------------------------------------------
\* alwaysConnected: start, the monitor tick, stop
\* ------------------------------------------------------------------------
\* start() up to its await: DataStore.get is issued
StartCall ==
  /\ starts < MaxStarts
  /\ starts' = starts + 1
  /\ pendingStarts' = Append(pendingStarts, DataStoreGet(dataStore, dataStoreKey, Null))
  /\ lastOp' = "StartCall"
  /\ noRejoin
  /\ dispatched' = <<>>
  /\ UNCHANGED <<dataStore, monitorInterval, intervals, timerIds,
                 lastVoiceChannel, wasManuallyDisconnected, hostVars,
                 nativeVars, manualPending, suppressed, settingsVars, pinVars, rtVars>>

\* start() after its await: the loaded value arrives
StartResume ==
  /\ pendingStarts # <<>>
  /\ LET loaded == Head(pendingStarts) IN
       /\ lastVoiceChannel' = loaded
       /\ IF loaded # Null /\ ~isConnected
          THEN autoRejoin(loaded)
          ELSE noRejoin
       /\ keepAliveIfKnown(loaded)
  /\ pendingStarts' = Tail(pendingStarts)
  /\ timerIds' = timerIds + 1
  /\ monitorInterval' = timerIds'
  /\ intervals' = intervals \cup {timerIds'}
  /\ lastOp' = "StartResume"
  /\ dispatched' = <<>>
  /\ UNCHANGED <<dataStore, wasManuallyDisconnected, starts, hostVars,
                 manualPending, suppressed, settingsVars, pinVars, rtVars>>

\* mutant: the manual-disconnect flag is not consulted
tickRejoins_IgnoreFlag(conn, flag) == ~conn

\* the branch of the interval callback
tickRejoins(conn, flag) == ~conn /\ ~flag

\* the flag the interval callback leaves
tickFlag(conn, flag) == IF conn THEN FALSE ELSE flag

\* lastVoiceChannel after the connected branch
tickChannel(lvc, current) == IF current # Null THEN current ELSE lvc

\* mutant: the observed channel is not persisted
tickStore_Skip(ds, current) == ds

\* the durable store after the connected branch
tickStore(ds, current) ==
  IF current # Null THEN DataStoreSet(ds, dataStoreKey, current) ELSE ds

\* one run of the setInterval callback of start()
MonitorTick ==
  /\ intervals # {}
  /\ lastOp' = "MonitorTick"
  /\ dispatched' = <<>>
  /\ wasManuallyDisconnected' = tickFlag(isConnected, wasManuallyDisconnected)
  /\ suppressed' = (suppressed /\ ~isConnected)
  /\ IF tickRejoins(isConnected, wasManuallyDisconnected)
     THEN /\ autoRejoin(lastVoiceChannel)
          /\ keepAliveIfKnown(lastVoiceChannel)
          /\ UNCHANGED <<lastVoiceChannel, dataStore>>
     ELSE /\ noRejoin
          /\ UNCHANGED nativeVars
          /\ IF isConnected
             THEN /\ lastVoiceChannel' = tickChannel(lastVoiceChannel, getCurrentVoiceChannelId)
                  /\ dataStore' = tickStore(dataStore, getCurrentVoiceChannelId)
             ELSE UNCHANGED <<lastVoiceChannel, dataStore>>
  /\ UNCHANGED <<monitorInterval, intervals, timerIds, pendingStarts, starts,
                 hostVars, manualPending, settingsVars, pinVars, rtVars>>

\* the intervals left after stop()
stopIntervals(handle, active) == IF handle # 0 THEN active \ {handle} ELSE active

stop ==
  /\ intervals' = stopIntervals(monitorInterval, intervals)
  /\ monitorInterval' = 0
  /\ noRejoin
  /\ lastOp' = "stop"
  /\ dispatched' = <<>>
  /\ UNCHANGED <<dataStore, timerIds, lastVoiceChannel, wasManuallyDisconnected,
                 pendingStarts, starts, hostVars, nativeVars, manualPending,
                 suppressed, settingsVars, pinVars, rtVars>>

\* the timers left when the recheck of timer t finds the connection down:
\* attemptRejoin(attempt + 1) sets the next one
recheckTimers(timers, t, threw) ==
  scheduleRecheck(timers (-) SetToBag({t}), t.channelId, t.attempt + 1, threw)

\* mutant: the callback sets its timer again although connected
connectedTimers_Reschedules(timers, t) == timers

\* the callback finds isConnected() true: it only logs, its timer is spent
connectedTimers(timers, t) == timers (-) SetToBag({t})

\* the setTimeout callback of attemptRejoin(t.attempt) fires
RecheckTimer(t) ==
  /\ BagIn(t, retryTimers)
  /\ IF ~isConnected
     THEN /\ t.attempt < MaxAttempt
          /\ joins' = joinCalls(voiceService)
          /\ \E threw \in BOOLEAN :
               /\ joinThrew' = (threw /\ joins' > 0)
               /\ retryTimers' = recheckTimers(retryTimers, t, joinThrew')
     ELSE /\ joins' = 0
          /\ joinThrew' = FALSE
          /\ retryTimers' = connectedTimers(retryTimers, t)
  /\ rejoined' = FALSE
  /\ lastOp' = "Recheck"
  /\ dispatched' = <<>>
  /\ UNCHANGED <<dataStore, monitorInterval, intervals, timerIds,
                 lastVoiceChannel, wasManuallyDisconnected, pendingStarts,
                 starts, hostVars, nativeVars, manualPending, suppressed,
                 settingsVars, pinVars, rtVars>>

\* some pending recheck timer fires
Recheck == \E t \in BagToSet(retryTimers) : RecheckTimer(t)

\* ------------------------------------------------------------------------
\* alwaysConnected: the native monitor and the host
\* ------------------------------------------------------------------------
\* rejoinChannel(channelId): the updates of the dispatched event
rejoinChannel(channelId) == <<[channelId |-> channelId]>>

\* mutant: a missing stored id does not end the callback
nativeTickUpdates_NoStoredCheck(storedChannelId, conn) ==
  IF ~conn THEN rejoinChannel(storedChannelId) ELSE <<>>

\* mutant: the connection is not consulted
nativeTickUpdates_IgnoreConnection(storedChannelId, conn) ==
  IF storedChannelId # Null THEN rejoinChannel(storedChannelId) ELSE <<>>

\* the updates dispatched by one run of the native interval callback
nativeTickUpdates(storedChannelId, conn) ==
  IF storedChannelId # Null /\ ~conn
  THEN rejoinChannel(storedChannelId)
  ELSE <<>>

\* one run of the setInterval callback of startNativeMonitor
NativeMonitorTick ==
  /\ nativeIntervals > 0
  /\ LET storedChannelId == loadChannelId(stateFile)
         updates == nativeTickUpdates(storedChannelId, isConnected)
     IN /\ dispatched' = [i \in 1..Len(updates) |-> updates[i].channelId]
        /\ wasManuallyDisconnected' = voiceStateFlag(wasManuallyDisconnected, updates)
        /\ manualPending' = (manualPending \/ hasNullUpdate(updates))
        /\ suppressed' = (suppressed \/ hasNullUpdate(updates))
  /\ noRejoin
  /\ lastOp' = "NativeMonitorTick"
  /\ UNCHANGED <<dataStore, monitorInterval, intervals, timerIds,
                 lastVoiceChannel, pendingStarts, starts, hostVars,
                 nativeVars, settingsVars, pinVars, rtVars>>

stopNativeMonitor ==
  /\ nativeIntervals' = stoppedIntervals(nativeMonitorInterval, nativeIntervals)
  /\ nativeMonitorInterval' = FALSE
  /\ noRejoin
  /\ lastOp' = "stopNativeMonitor"
  /\ dispatched' = <<>>
  /\ UNCHANGED <<dataStore, monitorInterval, intervals, timerIds,
                 lastVoiceChannel, wasManuallyDisconnected, pendingStarts,
                 starts, hostVars, stateFile, lastSaved, manualPending,
                 suppressed, settingsVars, pinVars, rtVars>>

\* the host calls the exported nativeKeepAlive
NativeKeepAliveCall(channelId, ok1, ok2) ==
  /\ nativeKeepAliveWrites(channelId, ok1, ok2)
  /\ noRejoin
  /\ lastOp' = "nativeKeepAlive"
  /\ dispatched' = <<>>
  /\ UNCHANGED <<dataStore, monitorInterval, intervals, timerIds,
                 lastVoiceChannel, wasManuallyDisconnected, pendingStarts,
                 starts, hostVars, manualPending, suppressed, settingsVars, pinVars, rtVars>>

\* the host calls the exported startNativeMonitor
StartNativeMonitorCall(channelId, ok) ==
  /\ startNativeMonitor(channelId, ok)
  /\ noRejoin
  /\ lastOp' = "startNativeMonitor"
  /\ dispatched' = <<>>
  /\ UNCHANGED <<dataStore, monitorInterval, intervals, timerIds,
                 lastVoiceChannel, wasManuallyDisconnected, pendingStarts,
                 starts, hostVars, manualPending, suppressed, settingsVars, pinVars, rtVars>>

\* the host's voice connection comes up or goes down
SetConnection(conn) ==
  /\ conn # connected
  /\ connected' = conn
  /\ noRejoin
  /\ lastOp' = "SetConnection"
  /\ dispatched' = <<>>
  /\ UNCHANGED <<dataStore, monitorInterval, intervals, timerIds,
                 lastVoiceChannel, wasManuallyDisconnected, pendingStarts,
                 starts, selected, voiceService, nativeVars, manualPending,
                 suppressed, settingsVars, pinVars, rtVars>>

\* the host's selected channel changes
SelectChannel(channelId) ==
  /\ channelId # selected
  /\ selected' = channelId
  /\ noRejoin
  /\ lastOp' = "SelectChannel"
  /\ dispatched' = <<>>
  /\ UNCHANGED <<dataStore, monitorInterval, intervals, timerIds,
                 lastVoiceChannel, wasManuallyDisconnected, pendingStarts,
                 starts, connected, voiceService, nativeVars, manualPending,
                 suppressed, settingsVars, pinVars, rtVars>>

\* ------------------------------------------------------------------------
\* Specifications
\* ------------------------------------------------------------------------
InitPins ==
  /\ pinnedMessages = loadPinnedMessages(DataStoreInit)
  /\ now = 1
  /\ toggles = [id \in MessageIds |-> 0]
  /\ mounted = FALSE
  /\ pins = <<>>

RtIdle ==
  /\ rtInput = <<>>
  /\ rtLoaded = <<>>
  /\ rtPc = "start"

\* values the user can have stored for the "delay between reconnect
\* attempts" option
AutoRejoinDelays == {autoRejoinDelayDefault, 10000}

\* definePluginSettings with nothing stored: the option has its default
InitSettings == autoRejoinDelay = autoRejoinDelayDefault

\* the object literal of definePlugin, before start()
InitPlugin ==
  /\ monitorInterval = 0
  /\ intervals = {}
  /\ timerIds = 0
  /\ lastVoiceChannel = Null
  /\ wasManuallyDisconnected = FALSE
  /\ pendingStarts = <<>>
  /\ starts = 0
  /\ retryTimers = EmptyBag
  /\ stateFile = Null
  /\ nativeMonitorInterval = FALSE
  /\ nativeIntervals = 0
  /\ lastSaved = Null
  /\ joins = 0
  /\ rejoined = FALSE
  /\ joinThrew = FALSE
  /\ dispatched = <<>>
  /\ manualPending = FALSE
  /\ suppressed = FALSE

Init ==
  /\ dataStore = DataStoreInit
  /\ InitPins
  /\ RtIdle
  /\ InitPlugin
  /\ InitSettings
  /\ connected = FALSE
  /\ selected = Null
  /\ voiceService = TRUE
  /\ lastOp = "init"

\* togglePin calls only, from the empty list
NextToggle == \E message \in Messages : togglePin(message)

SpecToggle == Init /\ [][NextToggle]_vars

\* the whole pin plugin
NextPins ==
  \/ \E message \in Messages : togglePin(message)
  \/ onStart
  \/ Render
  \/ Poll
  \/ Unmount
  \/ \E i \in 1..Cardinality(MessageIds) : UnpinClick(i)

SpecPins == Init /\ [][NextPins]_vars

\* save then load, on every list of records
InitRoundTrip ==
  /\ dataStore = DataStoreInit
  /\ InitPins
  /\ rtInput \in PinnedLists
  /\ rtLoaded = <<>>
  /\ rtPc = "start"
  /\ InitPlugin
  /\ InitSettings
  /\ connected = FALSE
  /\ selected = Null
  /\ voiceService = TRUE
  /\ lastOp = "init"

NextRoundTrip == RtSave \/ RtLoad

SpecRoundTrip == InitRoundTrip /\ [][NextRoundTrip]_vars

\* the reconnect monitor with its native helper and the host around it
InitAC ==
  /\ dataStore \in {DataStoreInit} \cup
       {DataStoreSet(DataStoreInit, dataStoreKey, c) : c \in VoiceChannels}
  /\ InitPins
  /\ RtIdle
  /\ InitPlugin
  /\ InitSettings
  /\ connected \in BOOLEAN
  /\ selected \in MaybeChannel
  /\ voiceService \in BOOLEAN
  /\ lastOp = "init"

NextAC ==
  \/ StartCall
  \/ StartResume
  \/ MonitorTick
  \/ stop
  \/ Recheck
  \/ \E updates \in UpdateBatches : VOICE_STATE_UPDATES(updates)
  \/ CONNECTION_OPEN
  \/ NativeMonitorTick
  \/ stopNativeMonitor
  \/ \E conn \in BOOLEAN : SetConnection(conn)
  \/ \E channelId \in MaybeChannel : SelectChannel(channelId)

SpecAC == InitAC /\ [][NextAC]_vars

\* the plugin started with either value of the option stored beforehand
InitConfigured ==
  /\ dataStore \in {DataStoreInit} \cup
       {DataStoreSet(DataStoreInit, dataStoreKey, c) : c \in VoiceChannels}
  /\ InitPins
  /\ RtIdle
  /\ InitPlugin
  /\ autoRejoinDelay \in AutoRejoinDelays
  /\ connected \in BOOLEAN
  /\ selected \in MaybeChannel
  /\ voiceService \in BOOLEAN
  /\ lastOp = "init"

SpecConfigured == InitConfigured /\ [][NextAC]_vars

\* retry chains under start(), ticks, rechecks and changes of the
\* connection; a timer set with setTimeout is run by the event loop once
\* its delay has passed, so a recheck that stays pending is eventually taken
InitChains ==
  /\ dataStore \in {DataStoreInit} \cup
       {DataStoreSet(DataStoreInit, dataStoreKey, c) : c \in VoiceChannels}
  /\ InitPins
  /\ RtIdle
  /\ InitPlugin
  /\ InitSettings
  /\ connected \in BOOLEAN
  /\ selected \in MaybeChannel
  /\ voiceService \in BOOLEAN
  /\ lastOp = "init"

NextChains ==
  \/ StartCall
  \/ StartResume
  \/ MonitorTick
  \/ Recheck
  \/ \E conn \in BOOLEAN : SetConnection(conn)

SpecChains == InitChains /\ [][NextChains]_vars /\ WF_vars(Recheck)

\* the native helper under calls of its three exports, with the plugin's
\* flux handlers receiving what it dispatches
InitNative ==
  /\ dataStore = DataStoreInit
  /\ InitPins
  /\ RtIdle
  /\ InitPlugin
  /\ InitSettings
  /\ connected \in BOOLEAN
  /\ selected = Null
  /\ voiceService = TRUE
  /\ lastOp = "init"

NextNative ==
  \/ \E channelId \in NativeChannelIds, ok1, ok2 \in BOOLEAN :
       NativeKeepAliveCall(channelId, ok1, ok2)
  \/ \E channelId \in NativeChannelIds, ok \in BOOLEAN :
       StartNativeMonitorCall(channelId, ok)
  \/ stopNativeMonitor
  \/ NativeMonitorTick
  \/ \E updates \in UpdateBatches : VOICE_STATE_UPDATES(updates)
  \/ CONNECTION_OPEN
  \/ \E conn \in BOOLEAN : SetConnection(conn)

SpecNative == InitNative /\ [][NextNative]_vars

\* ------------------------------------------------------------------------
\* Properties
\* ------------------------------------------------------------------------
\* the durable AlwaysConnected_lastVoiceChannel entry, absent counted as null
durableChannel == DataStoreGet(dataStore, dataStoreKey, Null)

\* C1: from the empty list and under togglePin calls only, a message id is
\* pinned exactly when the number of togglePin calls applied to it is odd;
\* when every id was toggled an even number of times the list is empty.
C1_ToggleParity ==
  /\ \A id \in MessageIds :
       (\E i \in 1..Len(pinnedMessages) : pinnedMessages[i].id = id)
         <=> (toggles[id] % 2 = 1)
  /\ (\A id \in MessageIds : toggles[id] % 2 = 0) => pinnedMessages = <<>>

\* a message pinned and toggled again, next to one that is still pinned
C1_Witness ==
  /\ toggles["5"] = 2
  /\ toggles["6"] = 1
  /\ Len(pinnedMessages) = 1

\* C7: the ids of the pinned list are pairwise distinct in every state
\* reached by togglePin calls and Unpin-button removals.
C7_UniqueIds ==
  \A i, j \in 1..Len(pinnedMessages) :
    i # j => pinnedMessages[i].id # pinnedMessages[j].id

\* "5" was toggled twice and is pinned: it was removed by the Unpin button
\* in between; both ids are in the list
C7_Witness ==
  /\ toggles["5"] = 2
  /\ toggles["6"] = 1
  /\ Len(pinnedMessages) = 2

\* C8: after every togglePin call and every Unpin-button removal the durable
\* ClientPinnedMessages entry is the in-memory list, record for record.
C8_DurableMirrorsMemory ==
  lastOp \in {"togglePin", "UnpinClick"} =>
    /\ dataStore[PINNED_KEY].has
    /\ dataStore[PINNED_KEY].val = pinnedMessages

\* both messages were pinned by togglePin and removed by the Unpin button
C8_Witness ==
  /\ lastOp = "UnpinClick"
  /\ pinnedMessages = <<>>
  /\ toggles["5"] = 1
  /\ toggles["6"] = 1

C2_Original ==
  (lastOp = "MonitorTick" /\ rejoined) => ~manualPending

\* C2: after a null-channel update no monitor tick invokes autoRejoin until
\* CONNECTION_OPEN is observed or a monitor tick observes the connection up.
C2_Suppression ==
  (lastOp = "MonitorTick" /\ suppressed) => (~rejoined /\ joins = 0)

\* a tick ran disconnected while the suppression was in force
C2_Witness ==
  /\ lastOp = "MonitorTick"
  /\ suppressed
  /\ ~connected
  /\ lastVoiceChannel # Null

\* C3 as stated: a tick that runs disconnected and not manually disconnected
\* issues exactly one join call, whatever the channels are.
C3_Original ==
  (lastOp = "MonitorTick" /\ ~connected /\ ~wasManuallyDisconnected) => joins = 1

\* C3: such a tick issues exactly one join call when a target channel is
\* known (lastVoiceChannel or the selected channel is non-null) and the host
\* offers VoiceService.join, and none otherwise; never more than one.
C3_JoinOncePerTick ==
  (lastOp = "MonitorTick" /\ ~connected /\ ~wasManuallyDisconnected) =>
    /\ rejoined
    /\ joins = IF (lastVoiceChannel # Null \/ selected # Null) /\ voiceService
               THEN 1 ELSE 0

\* a tick issued its join while the recheck timer of an earlier chain was pending
C3_Witness ==
  /\ lastOp = "MonitorTick"
  /\ ~connected
  /\ ~wasManuallyDisconnected
  /\ joins = 1
  /\ BagCardinality(retryTimers) = 2

\* stop() was the last call of the plugin's lifecycle and no monitor interval
\* is left: every start() has resumed and every interval has been cleared, so
\* every pending recheck timer belongs to a chain started before that stop()
pluginStopped ==
  /\ starts > 0
  /\ pendingStarts = <<>>
  /\ intervals = {}

\* C4: once stop() has been called, no retry chain started before it issues
\* a join call: a recheck that fires while the plugin is stopped joins nothing.
C4_NoJoinAfterStop ==
  (lastOp = "Recheck" /\ pluginStopped) => joins = 0

\* C5: the recheck delay after attempt k is min(30000 * (k + 1), 60000): 30000
\* for the first attempt and 60000 for every later one, never above 60000.
C5_BackoffSchedule ==
  \A t \in BagToSet(retryTimers) :
    /\ t.delay = (IF t.attempt = 0 THEN 30000 ELSE 60000)
    /\ t.delay <= 60000

\* a chain has reached its fourth attempt
C5_Witness ==
  \E t \in BagToSet(retryTimers) : t.attempt = 3 /\ t.delay = 60000

\* C6: wasManuallyDisconnected is true only after a null-channel update that
\* no CONNECTION_OPEN has followed, and only a VOICE_STATE_UPDATES event
\* carrying a null channel turns it on.
C6_ManualOnlyAfterNullUpdate ==
  /\ [](wasManuallyDisconnected => manualPending)
  /\ [][(~wasManuallyDisconnected /\ wasManuallyDisconnected')
          => (lastOp' = "VOICE_STATE_UPDATES" /\ dispatched' = <<>>)]_vars

\* the flag is set and survived a monitor tick
C6_Witness ==
  /\ wasManuallyDisconnected
  /\ lastOp = "MonitorTick"

C17_OneNativeInterval ==
  /\ [](/\ nativeIntervals = (IF nativeMonitorInterval THEN 1 ELSE 0)
        /\ lastOp = "stopNativeMonitor" => nativeIntervals = 0)
  /\ [][(nativeMonitorInterval
           /\ lastOp' \in {"nativeKeepAlive", "startNativeMonitor"})
          => (nativeIntervals' = nativeIntervals /\ nativeMonitorInterval')]_vars

\* a call made with the monitor's single interval in place replaced the saved id
C17_Witness ==
  /\ lastOp \in {"nativeKeepAlive", "startNativeMonitor"}
  /\ nativeIntervals = 1
  /\ stateFile = "c2"
  /\ lastSaved = "c2"

\* C20: the event dispatched by the native monitor never carries a null
\* channelId, and the native tick leaves wasManuallyDisconnected and
\* lastVoiceChannel as they were.
C20_NativeNeverManual ==
  [][lastOp' = "NativeMonitorTick" =>
       /\ \A i \in 1..Len(dispatched') : dispatched'[i] # Null
       /\ wasManuallyDisconnected' = wasManuallyDisconnected
       /\ lastVoiceChannel' = lastVoiceChannel]_vars

\* the plugin's handler received a dispatched event with the flag down
C20_Witness ==
  /\ lastOp = "NativeMonitorTick"
  /\ dispatched # <<>>
  /\ ~wasManuallyDisconnected

\* C12: when the join call of a rejoin attempt throws, the error is caught:
\* lastVoiceChannel and wasManuallyDisconnected are left as they were and the
\* recheck timer of the attempt is set as after a join that returned.
C12_JoinErrorCaught ==
  [][(joinThrew' /\ lastOp' \in {"MonitorTick", "Recheck"}) =>
       /\ lastVoiceChannel' = lastVoiceChannel
       /\ wasManuallyDisconnected' = wasManuallyDisconnected
       /\ lastOp' = "MonitorTick" =>
            retryTimers' = retryTimers (+) SetToBag(
              {[channelId |-> IF lastVoiceChannel # Null
                              THEN lastVoiceChannel ELSE selected,
                attempt |-> 0,
                delay |-> retryDelay(autoRejoinDelayDefault, 0)]})
       /\ lastOp' = "Recheck" =>
            \E t \in BagToSet(retryTimers) :
              retryTimers' = (retryTimers (-) SetToBag({t})) (+) SetToBag(
                {[channelId |-> t.channelId,
                  attempt |-> t.attempt + 1,
                  delay |-> retryDelay(autoRejoinDelayDefault, t.attempt + 1)]})]_vars

\* the join of a retry threw and the next recheck is pending
C12_Witness ==
  /\ lastOp = "Recheck"
  /\ joinThrew
  /\ \E t \in BagToSet(retryTimers) : t.attempt = 2

\* C13: every pending recheck timer of attempt k has the delay
\* min(d * (k + 1), 60000), d being the stored value of the option.
C13_DelayFromSetting ==
  \A t \in BagToSet(retryTimers) :
    t.delay = Min(autoRejoinDelay * (t.attempt + 1), maxDelay)

\* C14: from a state with wasManuallyDisconnected set and no connection,
\* neither a monitor tick nor the recheck of a pending retry chain calls join.
C14_NoJoinWhileManual ==
  [][(/\ wasManuallyDisconnected
      /\ ~connected
      /\ lastOp' \in {"MonitorTick", "Recheck"}) => joins' = 0]_vars

\* C15: after a single start() whose interval has not been cleared by
\* stop(), at most one recheck timer is pending.
C15_SingleChain ==
  (starts = 1 /\ intervals # {}) => BagCardinality(retryTimers) <= 1

\* C16: when stop() has just returned and no start() is waiting for its
\* DataStore read, no monitor interval is active.
C16_StopClearsEveryInterval ==
  (lastOp = "stop" /\ pendingStarts = <<>>) => intervals = {}

\* C18: if the connection check is true from some point on, then from some
\* point on no recheck timer is pending and no join is called: every chain
\* has seen the connection in its callback and set no further timer.
C18_ChainsStopOnceConnected ==
  <>[]connected => <>[](retryTimers = EmptyBag /\ joins = 0)

\* a chain's recheck has just found the connection up and no timer is left
C18_Witness ==
  /\ lastOp = "Recheck"
  /\ connected
  /\ retryTimers = EmptyBag
  /\ starts > 0

\* C19: the list shown by the mounted view is ordered by timestamp
\* descending, after the first render, a poll and an Unpin click alike.
C19_ViewSortedDescending ==
  mounted =>
    \A i \in 1..(Len(pins) - 1) : pins[i].timestamp >= pins[i + 1].timestamp

====
